---- MODULE Spec2Model ----
(***************************************************************************)
(* allusersync: materialises Gerrit account records (fetched over REST)    *)
(* into an All-Users git repository.  The model follows main.go: the fetch *)
(* loop of main, saveAccountDetails (one step per account of the batch,    *)
(* one step for the external-ids ledger) and UpdateRepo (one step per      *)
(* entry of the reference transaction).                                    *)
(*                                                                         *)
(* Objects are content addressed: a hash is modelled by the content it is  *)
(* the hash of.  A blob is the list of options of the encoded config, a    *)
(* tree the list of its entries, a commit a record.  A value that may be   *)
(* absent (a reference, a nil pointer) is a sequence of length 0 or 1.     *)
(***************************************************************************)
EXTENDS Integers, Sequences, FiniteSets, TLC

\* ------------------------------------------------------------- bounds
NumAccounts == 2     \* account ids the remote service knows
MaxArgs == 2         \* ids on the command line of one run
MaxRuns == 2         \* consecutive runs of the program on one repository
MaxTime == 1         \* clock readings 0..MaxTime (seconds, as a commit encodes them)
NumIdentities == 2   \* distinct external identity keys
MaxExtIDs == 1       \* external ids returned for one account
MaxFaults == 1       \* storage failures injected in one behaviour
MaxNames == 3        \* entry names of the trees PatchTree is tried on
MaxUpdates == 2      \* length of the update batch PatchTree is tried on

VARIABLES
    pc,          \* where the program is: "fetch", "save", "loop", "update", "done"
    runs,        \* number of runs started
    nargs,       \* ids of flag.Args() consumed by the loop of main
    infos,       \* main: var infos []*AccountInfo
    notFound,    \* ids for which the service answered 404 in this run
    hardErr,     \* ids for which getAccountDetails returned an error in this run
    s,           \* newSig().When of the run (the clock between runs)
    extCommit,   \* saveAccountDetails: extCommit (<<>> is nil)
    newEntries,  \* saveAccountDetails: newEntries
    trans,       \* saveAccountDetails: trans.updates
    k,           \* index into infos of the account loop
    pending,     \* UpdateRepo: entries of tr.updates the range loop has not visited
    objects,     \* repo.Storer, objects: [blob, tree, commit -> set of objects]
    refs,        \* repo.Storer, references: name -> <<>> or <<commit>>
    result,      \* "" while running, then "ok", "nothing" (exit 0) or "fatal" (log.Fatal)
    failed,      \* the operation that failed in this run, "" if none
    faults,      \* storage failures injected so far
    prev,        \* the records of the previous run when this run is fed them again, else <<>>
    objects0,    \* objects when the run started
    refs0        \* refs when the run started

vars == <<pc, runs, nargs, infos, notFound, hardErr, s, extCommit, newEntries,
          trans, k, pending, objects, refs, result, failed, faults, prev,
          objects0, refs0>>

\* ------------------------------------------------------------- data
AccountIDs == {7 + 100 * (n - 1) : n \in 1..NumAccounts}
Names == {"A"}
Emails == {"a@x", "b@x"}
Identities == 1..NumIdentities

\* gerrit.AccountExternalIdInfo: the service binds an email to every other identity
ExtEmail(i) == IF i % 2 = 0 THEN "e@x" ELSE ""
ExternalIds == {[Identity |-> i, EmailAddress |-> ExtEmail(i)] : i \in Identities}

RECURSIVE SeqsUpTo(_, _)
SeqsUpTo(S, n) ==
    IF n = 0 THEN {<<>>}
    ELSE LET shorter == SeqsUpTo(S, n - 1)
         IN  shorter \cup {Append(q, x) : q \in {t \in shorter : Len(t) = n - 1}, x \in S}

ExtIDLists == SeqsUpTo(ExternalIds, MaxExtIDs)

AccountDetails(id) ==
    {[AccountID |-> id, Name |-> n, Email |-> e] : n \in Names, e \in Emails}

AccountInfos(id) ==
    {[account |-> a, extIDs |-> x] : a \in AccountDetails(id), x \in ExtIDLists}

\* filemode
Regular == "100644"
Executable == "100755"
\* plumbing.ZeroHash: the hash of no object
ZeroHash == << <<"0000000000000000000000000000000000000000", "", "", "">> >>

\* Entry names are modelled by their rank in byte order.  "account.config" is
\* the only name of an account tree.
AccountConfigName == 0

\* fmt.Sprintf("%x", sha1.Sum([]byte(e.Identity))): injective, and not monotone
\* in the identity
Sha1Name(i) == ((i * 3) % 7) + 1

Pad2(n) == IF n < 10 THEN "0" \o ToString(n) ELSE ToString(n)

UidRefName(id) == "refs/users/" \o Pad2(id % 100) \o "/" \o ToString(id)

extRefName == "refs/meta/external-ids"
otherRefName == "refs/meta/config"

RefNames == {UidRefName(id) : id \in AccountIDs} \cup {extRefName, otherRefName}

EmptyStore == [blob |-> {}, tree |-> {}, commit |-> {}]

\* ------------------------------------------------------------- gitutil
AccountConfig(account) ==
    << <<"account", "", "fullName", account.Name>>,
       <<"account", "", "preferredEmail", account.Email>> >>

ExternalIdConfig(accountID, e) ==
    << <<"externalId", ToString(e.Identity), "accountId", ToString(accountID)>> >>
    \o (IF e.EmailAddress # ""
        THEN << <<"externalId", ToString(e.Identity), "email", e.EmailAddress>> >>
        ELSE <<>>)

SaveBlob(st, data) == [st EXCEPT !.blob = @ \cup {data}]
SaveConfig(st, cfg) == SaveBlob(st, cfg)

RECURSIVE Insert(_, _)
Insert(e, sorted) ==
    IF sorted = <<>> THEN <<e>>
    ELSE IF e.Name < Head(sorted).Name THEN <<e>> \o sorted
    ELSE <<Head(sorted)>> \o Insert(e, Tail(sorted))

RECURSIVE SortTreeEntries(_)
SortTreeEntries(entries) ==
    IF entries = <<>> THEN <<>>
    ELSE Insert(Head(entries), SortTreeEntries(Tail(entries)))

\* a SaveTree that returns the id of the tree without having stored it
SaveTreeNotStored(st, entries) == st
SaveTree(st, entries) == [st EXCEPT !.tree = @ \cup {SortTreeEntries(entries)}]
SaveCommit(st, c) == [st EXCEPT !.commit = @ \cup {c}]


\* PatchTree is gitutil code that is not in the source tree: it is modelled from
\* the tree-patch algorithm of the design (a merge-join of the base entries and
\* the updates, both ordered by name; a zero hash marks a deletion; updates that
\* are not sorted by name, or that repeat a name, are a precondition violation).
IsDelete(e) == e.Hash = ZeroHash

Sorted(entries) ==
    \A i \in 1..(Len(entries) - 1) : entries[i].Name < entries[i + 1].Name

RECURSIVE MergeJoinKeepDeleted(_, _)
MergeJoinKeepDeleted(base, updates) ==
    IF updates = <<>> THEN base
    ELSE IF base = <<>>
    THEN (IF IsDelete(Head(updates)) THEN <<>> ELSE <<Head(updates)>>)
         \o MergeJoinKeepDeleted(base, Tail(updates))
    ELSE IF Head(base).Name <= Head(updates).Name
    THEN <<Head(base)>> \o MergeJoinKeepDeleted(Tail(base), updates)
    ELSE (IF IsDelete(Head(updates)) THEN <<>> ELSE <<Head(updates)>>)
         \o MergeJoinKeepDeleted(base, Tail(updates))

RECURSIVE MergeJoin(_, _)
MergeJoin(base, updates) ==
    IF updates = <<>> THEN base
    ELSE IF base = <<>>
    THEN (IF IsDelete(Head(updates)) THEN <<>> ELSE <<Head(updates)>>)
         \o MergeJoin(base, Tail(updates))
    ELSE IF Head(base).Name < Head(updates).Name
    THEN <<Head(base)>> \o MergeJoin(Tail(base), updates)
    ELSE IF Head(updates).Name < Head(base).Name
    THEN (IF IsDelete(Head(updates)) THEN <<>> ELSE <<Head(updates)>>)
         \o MergeJoin(base, Tail(updates))
    ELSE (IF IsDelete(Head(updates)) THEN <<>> ELSE <<Head(updates)>>)
         \o MergeJoin(Tail(base), Tail(updates))

\* PatchTree(st, tr, se): err, or the id of the stored tree
PatchTree(st, tr, se) ==
    IF ~Sorted(se)
    THEN [err |-> TRUE, id |-> <<>>, st |-> st]
    ELSE LET t == MergeJoin(tr, se)
         IN  [err |-> FALSE, id |-> t, st |-> [st EXCEPT !.tree = @ \cup {t}]]

\* ------------------------------------------------------------- main.go
\* The answers of the remote service to the two calls of getAccountDetails.
Replies(id) ==
    {[code |-> "404", extOK |-> TRUE, info |-> <<>>],
     [code |-> "error", extOK |-> TRUE, info |-> <<>>],
     [code |-> "200", extOK |-> FALSE, info |-> <<>>]}
    \cup {[code |-> "200", extOK |-> TRUE, info |-> <<i>>] : i \in AccountInfos(id)}

HardError(reply) == reply.code = "error" \/ (reply.code = "200" /\ ~reply.extOK)

\* a getAccountDetails that answers a 404 with an empty record instead of nil
ZeroInfo == [account |-> [AccountID |-> 0, Name |-> "", Email |-> ""], extIDs |-> <<>>]
getAccountDetailsZeroValue(reply) ==
    IF reply.code = "404" THEN [val |-> <<ZeroInfo>>, err |-> FALSE]
    ELSE IF reply.code # "200" THEN [val |-> <<>>, err |-> TRUE]
    ELSE IF ~reply.extOK THEN [val |-> <<>>, err |-> TRUE]
    ELSE [val |-> reply.info, err |-> FALSE]

getAccountDetails(reply) ==
    IF reply.code = "404" THEN [val |-> <<>>, err |-> FALSE]
    ELSE IF reply.code # "200" THEN [val |-> <<>>, err |-> TRUE]
    ELSE IF ~reply.extOK THEN [val |-> <<>>, err |-> TRUE]
    ELSE [val |-> reply.info, err |-> FALSE]

\* the body of the loop over flag.Args()
MainLoop(r) ==
    IF r.val = <<>> THEN "continue" ELSE IF r.err THEN "fatal" ELSE "append"

\* trans.updates[name] = update; update is <<>> (nil: remove) or <<[NewID |-> c]>>
Put(tr, name, update) ==
    {e \in tr : e.name # name} \cup {[name |-> name, update |-> update]}

\* for _, e := range inf.extIDs: the blobs and the tree entries
ExtBlobs(inf) ==
    [j \in 1..Len(inf.extIDs) |-> ExternalIdConfig(inf.account.AccountID, inf.extIDs[j])]
ExtEntries(inf) ==
    [j \in 1..Len(inf.extIDs) |->
        [Name |-> Sha1Name(inf.extIDs[j].Identity), Mode |-> Regular,
         Hash |-> ExtBlobs(inf)[j]]]
SaveConfigs(st, cfgs, n) == [st EXCEPT !.blob = @ \cup {cfgs[j] : j \in 1..n}]

AccountTree(inf) ==
    SortTreeEntries(<<[Name |-> AccountConfigName, Mode |-> Regular,
                       Hash |-> AccountConfig(inf.account)]>>)

\* if oldUserCommit != nil && oldUserCommit.TreeHash == uidCommit.TreeHash { continue }
NeverUnchanged(oldUserCommit, treeHash) == FALSE
Unchanged(oldUserCommit, treeHash) ==
    oldUserCommit # <<>> /\ oldUserCommit[1].TreeHash = treeHash

\* uidCommit.ParentHashes = []plumbing.Hash{oldUserCommit.Hash}
NoParent(oldUserCommit) == <<>>
ParentHashes(oldUserCommit) == oldUserCommit

UidCommit(inf, oldUserCommit, sig) ==
    [TreeHash |-> AccountTree(inf), ParentHashes |-> ParentHashes(oldUserCommit),
     When |-> sig, Message |-> "update account"]

Init ==
    /\ pc = "fetch"
    /\ runs = 1
    /\ nargs = 0
    /\ infos = <<>>
    /\ notFound = {}
    /\ hardErr = {}
    /\ s = 0
    /\ extCommit = <<>>
    /\ newEntries = <<>>
    /\ trans = {}
    /\ k = 1
    /\ pending = {}
    /\ objects = EmptyStore
    /\ refs = [r \in RefNames |-> <<>>]
    /\ result = ""
    /\ failed = ""
    /\ faults = 0
    /\ prev = <<>>
    /\ objects0 = EmptyStore
    /\ refs0 = [r \in RefNames |-> <<>>]

\* log.Fatal(err)
Fatal(op) ==
    /\ pc' = "done"
    /\ result' = "fatal"
    /\ failed' = op

\* main: one iteration of the loop over flag.Args()
FetchAccount ==
    /\ pc = "fetch"
    /\ nargs < MaxArgs
    /\ prev # <<>> => nargs < Len(prev)
    /\ \E id \in AccountIDs : \E reply \in Replies(id) :
        /\ prev # <<>> => reply.info = <<prev[nargs + 1]>>
        /\ LET r == getAccountDetails(reply)
               todo == MainLoop(r)
           IN  /\ nargs' = nargs + 1
               /\ notFound' = IF reply.code = "404" THEN notFound \cup {id} ELSE notFound
               /\ hardErr' = IF HardError(reply) THEN hardErr \cup {id} ELSE hardErr
               /\ infos' = IF todo = "append" THEN infos \o r.val ELSE infos
               /\ IF todo = "fatal"
                  THEN Fatal("getAccountDetails")
                  ELSE UNCHANGED <<pc, result, failed>>
    /\ UNCHANGED <<runs, s, extCommit, newEntries, trans, k, pending, objects, refs,
                    faults, prev, objects0, refs0>>

\* main: after the loop
EndOfArgs ==
    /\ pc = "fetch"
    /\ nargs >= 1
    /\ prev # <<>> => nargs = Len(prev)
    /\ IF Len(infos) = 0
       THEN pc' = "done" /\ result' = "nothing"
       ELSE pc' = "save" /\ result' = result
    /\ UNCHANGED <<runs, nargs, infos, notFound, hardErr, s, extCommit, newEntries,
                    trans, k, pending, objects, refs, failed, faults, prev,
                    objects0, refs0>>


\* The failures the steps of one loop iteration can meet: the operation, and for
\* the SaveConfig of an external id its index in inf.extIDs.
AccountFailures(inf) ==
    {[op |-> o, j |-> 0] :
        o \in {"", "SaveConfig", "SaveTree", "Reference", "CommitObject", "SaveCommit"}}
    \cup {[op |-> "ExtSaveConfig", j |-> j] : j \in 1..Len(inf.extIDs)}

\* trans.updates[uidRefName] = &RefUpdate{NewID: id}: the loop records the update
\* and leaves the reference store as it is
LoopRefsEager(rf, name, id) == [rf EXCEPT ![name] = <<id>>]
LoopRefs(rf, name, id) == rf

\* saveAccountDetails, lines 98-121
SaveBegin ==
    /\ pc = "save"
    /\ \E now \in s..MaxTime : \E fail \in {"", "Reference", "CommitObject"} :
        LET extRef == refs[extRefName]
            missing == extRef # <<>> /\ extRef[1] \notin objects.commit
        IN  /\ fail # "" => faults < MaxFaults
            /\ fail = "CommitObject" => extRef # <<>>
            /\ s' = now
            /\ faults' = IF fail # "" THEN faults + 1 ELSE faults
            /\ IF fail # "" \/ missing
               THEN /\ Fatal(IF fail # "" THEN fail ELSE "CommitObject")
                    /\ UNCHANGED <<extCommit, newEntries, trans, k>>
               ELSE /\ extCommit' = extRef
                    /\ newEntries' = <<>>
                    /\ trans' = {}
                    /\ k' = 1
                    /\ pc' = "loop"
                    /\ UNCHANGED <<result, failed>>
    /\ UNCHANGED <<runs, nargs, infos, notFound, hardErr, pending, objects, refs,
                    prev, objects0, refs0>>

\* saveAccountDetails, lines 123-205: the loop body for infos[k]
AccountStep ==
    /\ pc = "loop"
    /\ k <= Len(infos)
    /\ \E fail \in AccountFailures(infos[k]) :
        LET inf == infos[k]
            st1 == SaveConfig(objects, AccountConfig(inf.account))
            st2 == SaveTree(st1, <<[Name |-> AccountConfigName, Mode |-> Regular,
                                    Hash |-> AccountConfig(inf.account)]>>)
            uidRefName == UidRefName(inf.account.AccountID)
            uidRef == refs[uidRefName]
            missing == uidRef # <<>> /\ uidRef[1] \notin objects.commit
            oldUserCommit == uidRef
            uidCommit == UidCommit(inf, oldUserCommit, s)
            skip == Unchanged(oldUserCommit, uidCommit.TreeHash)
            st3 == SaveCommit(st2, uidCommit)
            n == Len(inf.extIDs)
            readErr == fail.op \in {"Reference", "CommitObject"} \/ missing
        IN  /\ fail.op # "" => faults < MaxFaults
            /\ fail.op = "CommitObject" => uidRef # <<>>
            /\ fail.op \in {"SaveCommit", "ExtSaveConfig"} => ~missing /\ ~skip
            /\ faults' = IF fail.op # "" THEN faults + 1 ELSE faults
            /\ IF fail.op = "SaveConfig"
               THEN /\ Fatal("SaveConfig")
                    /\ UNCHANGED <<objects, refs, trans, newEntries, k>>
               ELSE IF fail.op = "SaveTree"
               THEN /\ Fatal("SaveTree")
                    /\ objects' = st1
                    /\ UNCHANGED <<refs, trans, newEntries, k>>
               ELSE IF readErr
               THEN /\ Fatal(IF fail.op = "Reference" THEN "Reference" ELSE "CommitObject")
                    /\ objects' = st2
                    /\ UNCHANGED <<refs, trans, newEntries, k>>
               ELSE IF skip
               THEN /\ objects' = st2
                    /\ k' = k + 1
                    /\ UNCHANGED <<pc, result, failed, refs, trans, newEntries>>
               ELSE IF fail.op = "SaveCommit"
               THEN /\ Fatal("SaveCommit")
                    /\ objects' = st2
                    /\ UNCHANGED <<refs, trans, newEntries, k>>
               ELSE IF fail.op = "ExtSaveConfig"
               THEN /\ Fatal("SaveConfig")
                    /\ objects' = SaveConfigs(st3, ExtBlobs(inf), fail.j - 1)
                    /\ refs' = LoopRefs(refs, uidRefName, uidCommit)
                    /\ trans' = Put(trans, uidRefName, <<[NewID |-> uidCommit]>>)
                    /\ newEntries' = newEntries \o SubSeq(ExtEntries(inf), 1, fail.j - 1)
                    /\ UNCHANGED k
               ELSE /\ objects' = SaveConfigs(st3, ExtBlobs(inf), n)
                    /\ refs' = LoopRefs(refs, uidRefName, uidCommit)
                    /\ trans' = Put(trans, uidRefName, <<[NewID |-> uidCommit]>>)
                    /\ newEntries' = newEntries \o ExtEntries(inf)
                    /\ k' = k + 1
                    /\ UNCHANGED <<pc, result, failed>>
    /\ UNCHANGED <<runs, nargs, infos, notFound, hardErr, s, extCommit, pending,
                    prev, objects0, refs0>>

\* if extCommit == nil || extCommit.TreeHash != newExtCommit.TreeHash
LedgerChanged(old, new) == old = <<>> \/ old[1].TreeHash # new.TreeHash

NewExtCommit(old, treeHash, sig) ==
    [TreeHash |-> treeHash, ParentHashes |-> old, When |-> sig,
     Message |-> "update external IDs"]

\* saveAccountDetails, lines 207-237: the external-ids ledger
PatchExtIDs ==
    /\ pc = "loop"
    /\ k = Len(infos) + 1
    /\ \E fail \in {"", "TreeObject", "PatchTree", "SaveCommit"} :
        LET missing == extCommit # <<>> /\ extCommit[1].TreeHash \notin objects.tree
            prevExtIDTree == IF extCommit # <<>> THEN extCommit[1].TreeHash ELSE <<>>
            p == PatchTree(objects, prevExtIDTree, newEntries)
            newExtCommit == NewExtCommit(extCommit, p.id, s)
        IN  /\ fail # "" => faults < MaxFaults
            /\ fail = "TreeObject" => extCommit # <<>>
            /\ fail = "SaveCommit" => ~missing /\ ~p.err
            /\ faults' = IF fail # "" THEN faults + 1 ELSE faults
            /\ IF fail = "TreeObject" \/ missing
               THEN Fatal("TreeObject") /\ UNCHANGED <<objects, trans, pending>>
               ELSE IF fail = "PatchTree" \/ p.err
               THEN Fatal("PatchTree") /\ UNCHANGED <<objects, trans, pending>>
               ELSE IF fail = "SaveCommit"
               THEN Fatal("SaveCommit") /\ objects' = p.st /\ UNCHANGED <<trans, pending>>
               ELSE /\ objects' = SaveCommit(p.st, newExtCommit)
                    /\ trans' = IF LedgerChanged(extCommit, newExtCommit)
                                THEN Put(trans, extRefName, <<[NewID |-> newExtCommit]>>)
                                ELSE trans
                    /\ pending' = trans'
                    /\ pc' = "update"
                    /\ UNCHANGED <<result, failed>>
    /\ UNCHANGED <<runs, nargs, infos, notFound, hardErr, s, extCommit, newEntries, k,
                    refs, prev, objects0, refs0>>

\* UpdateRepo returns err when the store operation on an entry fails
ReturnsErr(update, ok) == update # <<>> /\ ~ok

\* UpdateRepo: one iteration of the range over tr.updates (a Go map: any order)
UpdateRepoStep ==
    /\ pc = "update"
    /\ pending # {}
    /\ \E e \in pending : \E ok \in BOOLEAN :
        /\ ~ok => faults < MaxFaults
        /\ faults' = IF ok THEN faults ELSE faults + 1
        /\ refs' = IF ~ok THEN refs
                   ELSE IF e.update = <<>> THEN [refs EXCEPT ![e.name] = <<>>]
                   ELSE [refs EXCEPT ![e.name] = <<e.update[1].NewID>>]
        /\ IF ReturnsErr(e.update, ok)
           THEN Fatal("SetReference") /\ UNCHANGED pending
           ELSE /\ pending' = pending \ {e}
                /\ failed' = IF ok THEN failed ELSE "RemoveReference"
                /\ UNCHANGED <<pc, result>>
    /\ UNCHANGED <<runs, nargs, infos, notFound, hardErr, s, extCommit, newEntries,
                    trans, k, objects, prev, objects0, refs0>>

\* UpdateRepo: return nil, and main returns
UpdateRepoReturn ==
    /\ pc = "update"
    /\ pending = {}
    /\ pc' = "done"
    /\ result' = "ok"
    /\ UNCHANGED <<runs, nargs, infos, notFound, hardErr, s, extCommit, newEntries,
                    trans, k, pending, objects, refs, failed, faults, prev,
                    objects0, refs0>>

\* The program is started again on the repository the last run left, either on
\* new input or (after a successful run) fed the same records again.
NewRun ==
    /\ pc = "done"
    /\ runs < MaxRuns
    /\ runs' = runs + 1
    /\ \E again \in BOOLEAN :
        /\ again => result = "ok"
        /\ prev' = IF again THEN infos ELSE <<>>
    /\ pc' = "fetch"
    /\ nargs' = 0
    /\ infos' = <<>>
    /\ notFound' = {}
    /\ hardErr' = {}
    /\ extCommit' = <<>>
    /\ newEntries' = <<>>
    /\ trans' = {}
    /\ k' = 1
    /\ pending' = {}
    /\ result' = ""
    /\ failed' = ""
    /\ objects0' = objects
    /\ refs0' = refs
    /\ UNCHANGED <<s, objects, refs, faults>>

Next ==
    \/ FetchAccount
    \/ EndOfArgs
    \/ SaveBegin
    \/ AccountStep
    \/ PatchExtIDs
    \/ UpdateRepoStep
    \/ UpdateRepoReturn
    \/ NewRun

Spec == Init /\ [][Next]_vars


\* ------------------------------------------------------------- UpdateRepo alone
\* UpdateRepo applied to any transaction over the reference names (updates and
\* removals) on any reference store.
OldCommit ==
    [TreeHash |-> <<>>, ParentHashes |-> <<>>, When |-> 0, Message |-> "old"]
NewCommit ==
    [TreeHash |-> <<>>, ParentHashes |-> <<OldCommit>>, When |-> 0, Message |-> "new"]

Transactions ==
    {{[name |-> n, update |-> u[n]] : n \in D} :
        D \in SUBSET RefNames, u \in [RefNames -> {<<>>, <<[NewID |-> NewCommit]>>}]}

InitUpdateRepo ==
    /\ pc = "update"
    /\ runs = 1
    /\ nargs = 0
    /\ infos = <<>>
    /\ notFound = {}
    /\ hardErr = {}
    /\ s = 0
    /\ extCommit = <<>>
    /\ newEntries = <<>>
    /\ trans \in Transactions
    /\ k = 1
    /\ pending = trans
    /\ objects = [EmptyStore EXCEPT !.commit = {OldCommit, NewCommit}]
    /\ refs \in [RefNames -> {<<>>, <<OldCommit>>}]
    /\ result = ""
    /\ failed = ""
    /\ faults = 0
    /\ prev = <<>>
    /\ objects0 = objects
    /\ refs0 = refs

NextUpdateRepo == UpdateRepoStep \/ UpdateRepoReturn

SpecUpdateRepo == InitUpdateRepo /\ [][NextUpdateRepo]_vars

\* ------------------------------------------------------------- PatchTree alone
\* The ledger step of saveAccountDetails on any base tree over MaxNames names and
\* any update batch of at most MaxUpdates entries, deletions included.
PatchNames == 1..MaxNames
BaseBlob == ExternalIdConfig(7, [Identity |-> 1, EmailAddress |-> ""])
UpdateBlob == ExternalIdConfig(107, [Identity |-> 1, EmailAddress |-> "e@x"])

RECURSIVE SortedEntries(_)
SortedEntries(S) ==
    IF S = {} THEN <<>>
    ELSE LET m == CHOOSE e \in S : \A f \in S : e.Name <= f.Name
         IN  <<m>> \o SortedEntries(S \ {m})

BaseTrees ==
    {SortedEntries({[Name |-> n, Mode |-> Regular, Hash |-> BaseBlob] : n \in D}) :
        D \in SUBSET PatchNames}

UpdateEntries ==
    {[Name |-> n, Mode |-> m.Mode, Hash |-> m.Hash] :
        n \in PatchNames,
        m \in {[Mode |-> Regular, Hash |-> BaseBlob],
               [Mode |-> Executable, Hash |-> UpdateBlob],
               [Mode |-> Regular, Hash |-> ZeroHash]}}

BaseCommit(tree) ==
    [TreeHash |-> tree, ParentHashes |-> <<>>, When |-> 0,
     Message |-> "update external IDs"]

InitPatchTree ==
    /\ pc = "loop"
    /\ runs = 1
    /\ nargs = 0
    /\ infos = <<>>
    /\ notFound = {}
    /\ hardErr = {}
    /\ s = 0
    /\ \E base \in BaseTrees : \E nil \in BOOLEAN :
        /\ nil => base = <<>>
        /\ extCommit = IF nil THEN <<>> ELSE <<BaseCommit(base)>>
        /\ objects = IF nil THEN [EmptyStore EXCEPT !.blob = {BaseBlob, UpdateBlob}]
                     ELSE [blob |-> {BaseBlob, UpdateBlob}, tree |-> {base},
                           commit |-> {BaseCommit(base)}]
    /\ newEntries \in SeqsUpTo(UpdateEntries, MaxUpdates)
    /\ trans = {}
    /\ k = 1
    /\ pending = {}
    /\ refs = [r \in RefNames |-> IF r = extRefName THEN extCommit ELSE <<>>]
    /\ result = ""
    /\ failed = ""
    /\ faults = 0
    /\ prev = <<>>
    /\ objects0 = objects
    /\ refs0 = refs

NextPatchTree == PatchExtIDs

SpecPatchTree == InitPatchTree /\ [][NextPatchTree]_vars


\* ------------------------------------------------------------- properties
InfoIndexes == 1..Len(infos)
IdOf(j) == infos[j].account.AccountID
RefOf(j) == UidRefName(IdOf(j))
NewCommits == objects.commit \ objects0.commit
NewAccountCommits == {c \in NewCommits : c.Message = "update account"}
NewLedgerCommits == {c \in NewCommits : c.Message = "update external IDs"}

\* infos[j] has been through the account loop
Processed(j) == pc \in {"loop", "update", "done"} /\ j < k

\* the reference of infos[j] existed when the run started and pointed to a commit
\* with the tree derived from infos[j]
SameTree(j) ==
    /\ refs0[RefOf(j)] # <<>>
    /\ refs0[RefOf(j)][1].TreeHash = AccountTree(infos[j])

C2_Idempotent ==
    (result = "ok" /\ prev # <<>>) => (objects = objects0 /\ refs = refs0)

\* C3: an error of getAccountDetails ends the run at once (log.Fatal), before
\* saveAccountDetails; it is not skipped like a 404.
C3_HardErrorAborts ==
    hardErr # {} => (pc = "done" /\ result = "fatal" /\ failed = "getAccountDetails")

\* C4: from a repository without references, a successful run on one account
\* without external ids stores one account commit and no ledger commit, and sets
\* the reference of the account and no other.
C4_FirstSync ==
    (/\ result = "ok"
     /\ \A r \in RefNames : refs0[r] = <<>>
     /\ Len(infos) = 1
     /\ infos[1].extIDs = <<>>)
    => /\ Cardinality(NewAccountCommits) = 1
       /\ NewLedgerCommits = {}
       /\ refs[RefOf(1)] # <<>>
       /\ \A r \in RefNames \ {RefOf(1)} : refs[r] = <<>>

\* C5: when a step changes the reference of an account, the new target has the
\* old target as its only parent (none if the reference was absent) and the old
\* target is still in the object store; no object ever leaves the store.
C5_Chaining ==
    [][/\ \A id \in AccountIDs :
            refs'[UidRefName(id)] # refs[UidRefName(id)] =>
                /\ refs'[UidRefName(id)] # <<>>
                /\ refs'[UidRefName(id)][1].ParentHashes = refs[UidRefName(id)]
                /\ refs'[UidRefName(id)][1] \in objects'.commit
                /\ \A c \in {refs[UidRefName(id)][i] : i \in 1..Len(refs[UidRefName(id)])} :
                      c \in objects'.commit
       /\ objects.commit \subseteq objects'.commit
       /\ objects.tree \subseteq objects'.tree
       /\ objects.blob \subseteq objects'.blob]_vars

C5_Witness ==
    \E id \in AccountIDs :
        /\ refs[UidRefName(id)] # <<>>
        /\ refs0[UidRefName(id)] # <<>>
        /\ refs[UidRefName(id)] # refs0[UidRefName(id)]
        /\ refs[UidRefName(id)][1].ParentHashes = refs0[UidRefName(id)]


\* the tree of the commit the ledger reference points to
LedgerTree == IF refs[extRefName] = <<>> THEN <<>> ELSE refs[extRefName][1].TreeHash
LedgerEntries == {LedgerTree[i] : i \in 1..Len(LedgerTree)}

\* C6: after a successful run the ledger reference points to a commit whose tree
\* has, for every external id of every record of the batch, an entry named by
\* the hash of the identity that points to the blob of that external id.
C6_ExternalIdCoverage ==
    result = "ok" =>
        /\ refs[extRefName] # <<>>
        /\ \A j \in InfoIndexes : \A i \in 1..Len(infos[j].extIDs) :
              ExtEntries(infos[j])[i] \in LedgerEntries

\* C7: UpdateRepo does not return success after a store operation failed, and a
\* failed operation leaves every entry the loop has not visited unapplied.
C7_FailureReported ==
    /\ result = "ok" => failed = ""
    /\ failed # "" =>
          \A e \in pending : e.name \notin {f.name : f \in trans \ pending} =>
              refs[e.name] = refs0[e.name]

\* C8: a 404 never ends the run; every record of the batch comes from an id that
\* was not answered with 404 or an error; a reference that differs from its value
\* at the start of the run is the ledger reference or the reference of a record
\* of the batch; and every object stored by the run is derived from a record of
\* the batch or is a ledger tree or ledger commit.
C8_NotFoundFrame ==
    /\ failed # "getAccountDetails"
    /\ Len(infos) + Cardinality(notFound \cup hardErr) <= nargs
    /\ \A r \in RefNames :
          refs[r] # refs0[r] => (r = extRefName \/ \E j \in InfoIndexes : r = RefOf(j))
    /\ \A id \in notFound :
          (\A j \in InfoIndexes : IdOf(j) # id) => refs[UidRefName(id)] = refs0[UidRefName(id)]
    /\ \A b \in objects.blob \ objects0.blob :
          \E j \in InfoIndexes :
              \/ b = AccountConfig(infos[j].account)
              \/ \E i \in 1..Len(infos[j].extIDs) : b = ExtBlobs(infos[j])[i]
    /\ \A c \in NewAccountCommits : \E j \in InfoIndexes : c.TreeHash = AccountTree(infos[j])
    /\ NewCommits = NewAccountCommits \cup NewLedgerCommits

C8_Witness ==
    /\ result = "ok"
    /\ notFound # {}
    /\ \E id \in notFound : \A j \in InfoIndexes : IdOf(j) # id
    /\ \E r \in RefNames : refs[r] # refs0[r]

\* C9: the tree PatchTree stores for a base tree and a batch of updates is sorted
\* by name and has exactly the entries: the non-deleting updates, and the base
\* entries whose name no update carries.
PatchBase == IF extCommit = <<>> THEN <<>> ELSE extCommit[1].TreeHash
Range(q) == {q[i] : i \in 1..Len(q)}
PatchExpected ==
    {u \in Range(newEntries) : ~IsDelete(u)}
    \cup {b \in Range(PatchBase) : \A u \in Range(newEntries) : u.Name # b.Name}

C9_PatchTree ==
    pc = "update" =>
        \E c \in NewCommits :
            /\ NewCommits = {c}
            /\ c.TreeHash \in objects.tree
            /\ Sorted(c.TreeHash)
            /\ Range(c.TreeHash) = PatchExpected
            /\ {e.Name : e \in Range(c.TreeHash)} =
                  ({e.Name : e \in Range(PatchBase)}
                      \cup {u.Name : u \in {v \in Range(newEntries) : ~IsDelete(v)}})
                  \ {u.Name : u \in {v \in Range(newEntries) : IsDelete(v)}}

\* a patch that replaces an entry, inserts one, deletes one of the base and
\* carries a deletion of a name the base does not have
C9_Witness ==
    /\ pc = "update"
    /\ \E u \in Range(newEntries) : IsDelete(u) /\ u.Name \notin {b.Name : b \in Range(PatchBase)}
    /\ \E u \in Range(newEntries) : ~IsDelete(u) /\ u.Name \in {b.Name : b \in Range(PatchBase)}
    /\ Len(PatchBase) > 1

\* C10: when an operation of saveAccountDetails other than those of UpdateRepo
\* fails, the run ends in log.Fatal, UpdateRepo has not been called, and every
\* reference is as it was when the run started.
StoreOps == {"SaveConfig", "SaveTree", "SaveCommit", "PatchTree", "Reference",
             "CommitObject", "TreeObject"}

C10_NoPartialBatch ==
    /\ failed \in StoreOps => (pc = "done" /\ result = "fatal" /\ pending = {} /\ refs = refs0)
    /\ pc \in {"fetch", "save", "loop"} => refs = refs0

C10_Witness ==
    /\ failed \in StoreOps
    /\ trans # {}
    /\ k > 1

\* C11: in every state, also of a run that failed midway and of a transaction
\* that is partly applied, the tree of every stored commit is stored, the blob
\* of every entry of every stored tree is stored, the parents of every stored
\* commit are stored, and every reference (and every update waiting in the
\* transaction) points to a stored commit; as long as saveAccountDetails is
\* still writing objects no reference has been written.
C11_WriteBeforeReference ==
    /\ \A c \in objects.commit :
          /\ c.TreeHash \in objects.tree
          /\ \A i \in 1..Len(c.ParentHashes) : c.ParentHashes[i] \in objects.commit
    /\ \A t \in objects.tree : \A i \in 1..Len(t) : t[i].Hash \in objects.blob
    /\ \A r \in RefNames : \A i \in 1..Len(refs[r]) : refs[r][i] \in objects.commit
    /\ \A e \in trans : \A i \in 1..Len(e.update) : e.update[i].NewID \in objects.commit
    /\ pc \in {"save", "loop"} => refs = refs0

\* a second run whose transaction was applied in part, on a repository that
\* already holds commits with parents and a ledger tree with entries
C11_Witness ==
    /\ runs = 2
    /\ failed = "SetReference"
    /\ pending # {}
    /\ pending # trans
    /\ \E r \in RefNames : refs[r] # refs0[r]
    /\ \E c \in objects.commit : c.ParentHashes # <<>>
    /\ \E t \in objects.tree : \E i \in 1..Len(t) : t[i].Name # AccountConfigName

\* C12: when saveAccountDetails calls PatchTree, newEntries is sorted by name
\* and no two of its entries have the same name.
C12_SortedUpdates ==
    (/\ pc = "loop"
     /\ k = Len(infos) + 1
     /\ (extCommit = <<>> \/ extCommit[1].TreeHash \in objects.tree))
    => Sorted(newEntries)

====
